---- MODULE Spec2Model ----
(***************************************************************************)
(* GestIQ: gesture classification, action dispatch and continuous window   *)
(* control of GestureController (gesture_control.py, config.py).           *)
(*                                                                         *)
(* Units.  Normalised landmark coordinates are integers in thousandths     *)
(* (0.02 is 20, 0.05 is 50).  Clock readings of time.time() are integers   *)
(* in half seconds (2.0 s is 4, 1.0 s is 2, time.sleep(0.5) is 1); the     *)
(* pause time.sleep(0.1) between two key events is shorter than one unit   *)
(* of this clock and does not advance it.  Frames arrive faster than the   *)
(* clock ticks, so a frame may begin at the reading the last step ended at.*)
(***************************************************************************)
EXTENDS Integers, Sequences, FiniteSets, TLC

VARIABLES
    now,                      \* the value time.time() returns
    pc,                       \* position of the program: "main", "loop", "done", "aborted"
    last_action_time,         \* self.last_action_time
    gesture_detected,         \* self.gesture_detected
    direct_control_active,    \* self.direct_control_active
    last_hand_position,       \* self.last_hand_position
    window_initial_position,  \* self.window_initial_position
    move_mode_activated,      \* self.move_mode_activated ("unset": no attribute)
    last_window_move_time,    \* self.last_window_move_time
    hand,                     \* hand_landmarks of the last step
    label,                    \* branch _process_gestures took in the last step
    invoked,                  \* labels execute_action was called with in the last step
    frame_time,               \* the clock when the last step began
    os_log,                   \* OS primitives issued in the last step
    printed,                  \* messages printed in the last step
    streak,                   \* consecutive steps that ended with this same label
    prev_action_time,         \* last_action_time when the last step began
    last_fire,                \* the clock when an action was last dispatched
    prev_hand_position,       \* last_hand_position when the last step began
    last_move_frame,          \* the clock at the start of the last frame that sent a move command
    last_move_at,             \* the clock when a move command was last sent
    dropped_edge,             \* the gesture now held began with a call the cooldown dropped
    adapter_result,           \* outcome of the last direct call of _get_landmark_points
    config_loaded,            \* the import of config.py succeeded
    cap_opened,               \* self.cap.isOpened()
    cleanups,                 \* the number of calls of _cleanup
    failed_at,                \* the clock at the start of the last frame of SpecRun in which execute_action caught an error
    frame_skip,               \* self.frame_skip
    frame_count,              \* self.frame_count, counted in SpecSkip (with frame_skip 1 it plays no part)
    skipped_absent,           \* a frame skipped since the last processed frame showed no hand
    bridged_absent            \* a frame skipped between the last two processed frames showed no hand

vars == <<now, pc, last_action_time, gesture_detected, direct_control_active,
          last_hand_position, window_initial_position, move_mode_activated,
          last_window_move_time, hand, label, invoked, frame_time, os_log, printed,
          streak, prev_action_time, last_fire, prev_hand_position,
          last_move_frame, last_move_at, dropped_edge,
          adapter_result, config_loaded, cap_opened, cleanups, failed_at,
          frame_skip, frame_count, skipped_absent, bridged_absent>>

----------------------------------------------------------------------------
\* Bounds of the model

StartClock == 100
MaxTime == 106
MaxTrackTime == 104
MaxStreak == 2
MaxReactTime == 108
MaxMoveTime == 101
MaxRunTime == 102
MaxSkipTime == 104
MaxFrames == 6

----------------------------------------------------------------------------
\* Configuration (config.py)

ok_distance == 50
action_cooldown == 4
MoveGate == 2
MoveThreshold == 30
SettleSleep == 1
KeySleep == 0
ScreenWidth == 1000
ScreenHeight == 1000
ExtendMargin == 20
CloseMargin == 10

\* Clock advance between the end of one step and the start of the next
Elapsed == {0, SettleSleep, action_cooldown}

None == << >>
MousePos == <<0, 0>>

\* ACTIONS of config.py (ACTIONS is a reserved word)
ACTIONS_ ==
    [ OK                    |-> [kind |-> "app",    what |-> "notepad.exe"],
      THUMBS_UP             |-> [kind |-> "app",    what |-> "calc.exe"],
      PEACE_SIGN            |-> [kind |-> "app",    what |-> "mspaint.exe"],
      FIST                  |-> [kind |-> "app",    what |-> "taskmgr.exe"],
      COPY_GESTURE          |-> [kind |-> "action", what |-> "copy"],
      PASTE_GESTURE         |-> [kind |-> "action", what |-> "paste"],
      MOVE_WINDOW           |-> [kind |-> "action", what |-> "move_window"],
      RESIZE_WINDOW         |-> [kind |-> "action", what |-> "resize_window"],
      MINIMIZE_WINDOW       |-> [kind |-> "action", what |-> "minimize_window"],
      DIRECT_WINDOW_CONTROL |-> [kind |-> "action", what |-> "direct_window_control"] ]

\* ACTIONS of the defaults gesture_control.py falls back to
FALLBACK_ACTIONS ==
    [ OK        |-> [kind |-> "app", what |-> "notepad.exe"],
      THUMBS_UP |-> [kind |-> "app", what |-> "calc.exe"] ]

\* The keys of COLORS of config.py
COLORS_ ==
    {"ok_gesture", "thumbs_up", "peace_sign", "fist", "copy", "paste", "move",
     "resize", "minimize", "direct_control", "text", "background"}

\* The keys of COLORS of the defaults
FALLBACK_COLORS == {"ok_gesture", "thumbs_up", "text"}

\* The names the import statement binds
LoadedActions == IF config_loaded THEN ACTIONS_ ELSE FALLBACK_ACTIONS

LoadedColors == IF config_loaded THEN COLORS_ ELSE FALLBACK_COLORS

----------------------------------------------------------------------------
\* Hands: hand_landmarks.landmark is a function 0..20 -> [x, y]

NoHand == [present |-> FALSE]

Pt(px, py) == [x |-> px, y |-> py]

\* A hand whose joints lie at y = 500; t, i, m, r, p are the offsets of the
\* five tips from their joints, mcp the offset of the thumb MCP from the IP,
\* dx the horizontal offset of the index tip from the thumb tip.
MkHand(t, i, m, r, p, mcp, dx, palm) ==
    [present |-> TRUE,
     landmark |-> [k \in 0..20 |->
        CASE k = 2  -> Pt(500, 500 + mcp)
          [] k = 4  -> Pt(500, 500 + t)
          [] k = 8  -> Pt(500 + dx, 500 + i)
          [] k = 9  -> Pt(palm[1], palm[2])
          [] k = 12 -> Pt(500, 500 + m)
          [] k = 16 -> Pt(500, 500 + r)
          [] k = 20 -> Pt(500, 500 + p)
          [] OTHER  -> Pt(500, 500)]]

_get_landmark_points(landmarks) ==
    [thumb_tip  |-> landmarks[4],
     thumb_ip   |-> landmarks[3],
     thumb_mcp  |-> landmarks[2],
     index_tip  |-> landmarks[8],
     index_pip  |-> landmarks[6],
     middle_tip |-> landmarks[12],
     middle_pip |-> landmarks[10],
     ring_tip   |-> landmarks[16],
     ring_pip   |-> landmarks[14],
     pinky_tip  |-> landmarks[20],
     pinky_pip  |-> landmarks[18]]

\* The indices _get_landmark_points reads
UsedLandmarks == {2, 3, 4, 6, 8, 10, 12, 14, 16, 18, 20}

\* A call of _get_landmark_points with hand_landmarks.landmark, or with None
\* when hand_landmarks is absent.  The method subscripts its argument without
\* a test, so None raises TypeError and a sequence that lacks one of the
\* indices raises IndexError.
LandmarkAdapter(hand_landmarks) ==
    IF ~hand_landmarks.present THEN [status |-> "TypeError"]
    ELSE IF ~(UsedLandmarks \subseteq DOMAIN hand_landmarks.landmark)
         THEN [status |-> "IndexError"]
    ELSE [status |-> "points",
          points |-> _get_landmark_points(hand_landmarks.landmark)]

----------------------------------------------------------------------------
\* Gesture classifiers

\* np.sqrt(dx**2 + dy**2) < ok_distance, compared on the squares
\* detect_ok_gesture with <= for < in the distance test
detect_ok_gesture_inclusive(hand_landmarks) ==
    IF ~hand_landmarks.present THEN FALSE
    ELSE LET points == _get_landmark_points(hand_landmarks.landmark)
             ddx == points.thumb_tip.x - points.index_tip.x
             ddy == points.thumb_tip.y - points.index_tip.y
             other_fingers_extended ==
                 /\ points.middle_tip.y < points.middle_pip.y
                 /\ points.ring_tip.y < points.ring_pip.y
                 /\ points.pinky_tip.y < points.pinky_pip.y
         IN  ddx * ddx + ddy * ddy <= ok_distance * ok_distance
             /\ other_fingers_extended

detect_ok_gesture(hand_landmarks) ==
    IF ~hand_landmarks.present THEN FALSE
    ELSE LET points == _get_landmark_points(hand_landmarks.landmark)
             ddx == points.thumb_tip.x - points.index_tip.x
             ddy == points.thumb_tip.y - points.index_tip.y
             other_fingers_extended ==
                 /\ points.middle_tip.y < points.middle_pip.y
                 /\ points.ring_tip.y < points.ring_pip.y
                 /\ points.pinky_tip.y < points.pinky_pip.y
         IN  ddx * ddx + ddy * ddy < ok_distance * ok_distance
             /\ other_fingers_extended

detect_thumbs_up(hand_landmarks) ==
    IF ~hand_landmarks.present THEN FALSE
    ELSE LET points == _get_landmark_points(hand_landmarks.landmark)
             thumb_up == /\ points.thumb_tip.y < points.thumb_ip.y
                         /\ points.thumb_ip.y < points.thumb_mcp.y
             other_fingers_closed ==
                 /\ points.index_tip.y > points.index_pip.y
                 /\ points.middle_tip.y > points.middle_pip.y
                 /\ points.ring_tip.y > points.ring_pip.y
                 /\ points.pinky_tip.y > points.pinky_pip.y
         IN  thumb_up /\ other_fingers_closed

\* detect_copy_gesture without the closure tests
detect_copy_gesture_subset(hand_landmarks) ==
    IF ~hand_landmarks.present THEN FALSE
    ELSE LET points == _get_landmark_points(hand_landmarks.landmark)
             index_extended == points.index_tip.y < points.index_pip.y - ExtendMargin
             middle_extended == points.middle_tip.y < points.middle_pip.y - ExtendMargin
             thumb_closed == points.thumb_tip.y > points.thumb_ip.y - CloseMargin
             ring_closed == points.ring_tip.y > points.ring_pip.y - CloseMargin
             pinky_closed == points.pinky_tip.y > points.pinky_pip.y - CloseMargin
         IN  index_extended /\ middle_extended

detect_copy_gesture(hand_landmarks) ==
    IF ~hand_landmarks.present THEN FALSE
    ELSE LET points == _get_landmark_points(hand_landmarks.landmark)
             index_extended == points.index_tip.y < points.index_pip.y - ExtendMargin
             middle_extended == points.middle_tip.y < points.middle_pip.y - ExtendMargin
             thumb_closed == points.thumb_tip.y > points.thumb_ip.y - CloseMargin
             ring_closed == points.ring_tip.y > points.ring_pip.y - CloseMargin
             pinky_closed == points.pinky_tip.y > points.pinky_pip.y - CloseMargin
         IN  index_extended /\ middle_extended
             /\ thumb_closed /\ ring_closed /\ pinky_closed

\* detect_paste_gesture with a closure band that reaches past the extension
\* margin
detect_paste_gesture_widemargin(hand_landmarks) ==
    IF ~hand_landmarks.present THEN FALSE
    ELSE LET points == _get_landmark_points(hand_landmarks.landmark)
             thumb_extended == points.thumb_tip.y < points.thumb_ip.y - ExtendMargin
             index_extended == points.index_tip.y < points.index_pip.y - ExtendMargin
             middle_closed == points.middle_tip.y > points.middle_pip.y - 2 * ExtendMargin
             ring_closed == points.ring_tip.y > points.ring_pip.y - 2 * ExtendMargin
             pinky_closed == points.pinky_tip.y > points.pinky_pip.y - 2 * ExtendMargin
         IN  thumb_extended /\ index_extended
             /\ middle_closed /\ ring_closed /\ pinky_closed

detect_paste_gesture(hand_landmarks) ==
    IF ~hand_landmarks.present THEN FALSE
    ELSE LET points == _get_landmark_points(hand_landmarks.landmark)
             thumb_extended == points.thumb_tip.y < points.thumb_ip.y - ExtendMargin
             index_extended == points.index_tip.y < points.index_pip.y - ExtendMargin
             middle_closed == points.middle_tip.y > points.middle_pip.y - CloseMargin
             ring_closed == points.ring_tip.y > points.ring_pip.y - CloseMargin
             pinky_closed == points.pinky_tip.y > points.pinky_pip.y - CloseMargin
         IN  thumb_extended /\ index_extended
             /\ middle_closed /\ ring_closed /\ pinky_closed

\* detect_move_window_gesture with closure meaning tip.y > joint.y
detect_move_window_gesture_nomargin(hand_landmarks) ==
    IF ~hand_landmarks.present THEN FALSE
    ELSE LET points == _get_landmark_points(hand_landmarks.landmark)
             index_extended == points.index_tip.y < points.index_pip.y - ExtendMargin
             middle_extended == points.middle_tip.y < points.middle_pip.y - ExtendMargin
             ring_extended == points.ring_tip.y < points.ring_pip.y - ExtendMargin
             thumb_closed == points.thumb_tip.y > points.thumb_ip.y
             pinky_closed == points.pinky_tip.y > points.pinky_pip.y
         IN  index_extended /\ middle_extended /\ ring_extended
             /\ thumb_closed /\ pinky_closed

detect_move_window_gesture(hand_landmarks) ==
    IF ~hand_landmarks.present THEN FALSE
    ELSE LET points == _get_landmark_points(hand_landmarks.landmark)
             index_extended == points.index_tip.y < points.index_pip.y - ExtendMargin
             middle_extended == points.middle_tip.y < points.middle_pip.y - ExtendMargin
             ring_extended == points.ring_tip.y < points.ring_pip.y - ExtendMargin
             thumb_closed == points.thumb_tip.y > points.thumb_ip.y - CloseMargin
             pinky_closed == points.pinky_tip.y > points.pinky_pip.y - CloseMargin
         IN  index_extended /\ middle_extended /\ ring_extended
             /\ thumb_closed /\ pinky_closed

\* detect_resize_window_gesture with <= and >= at the two margins
detect_resize_window_gesture_inclusive(hand_landmarks) ==
    IF ~hand_landmarks.present THEN FALSE
    ELSE LET points == _get_landmark_points(hand_landmarks.landmark)
             thumb_extended == points.thumb_tip.y <= points.thumb_ip.y - ExtendMargin
             index_extended == points.index_tip.y <= points.index_pip.y - ExtendMargin
             middle_extended == points.middle_tip.y <= points.middle_pip.y - ExtendMargin
             ring_closed == points.ring_tip.y >= points.ring_pip.y - CloseMargin
             pinky_closed == points.pinky_tip.y >= points.pinky_pip.y - CloseMargin
         IN  thumb_extended /\ index_extended /\ middle_extended
             /\ ring_closed /\ pinky_closed

detect_resize_window_gesture(hand_landmarks) ==
    IF ~hand_landmarks.present THEN FALSE
    ELSE LET points == _get_landmark_points(hand_landmarks.landmark)
             thumb_extended == points.thumb_tip.y < points.thumb_ip.y - ExtendMargin
             index_extended == points.index_tip.y < points.index_pip.y - ExtendMargin
             middle_extended == points.middle_tip.y < points.middle_pip.y - ExtendMargin
             ring_closed == points.ring_tip.y > points.ring_pip.y - CloseMargin
             pinky_closed == points.pinky_tip.y > points.pinky_pip.y - CloseMargin
         IN  thumb_extended /\ index_extended /\ middle_extended
             /\ ring_closed /\ pinky_closed

\* detect_minimize_window_gesture with the closure margin on the four fingers
detect_minimize_window_gesture_margin(hand_landmarks) ==
    IF ~hand_landmarks.present THEN FALSE
    ELSE LET points == _get_landmark_points(hand_landmarks.landmark)
             thumb_down == /\ points.thumb_tip.y > points.thumb_ip.y
                           /\ points.thumb_ip.y > points.thumb_mcp.y
             other_fingers_closed ==
                 /\ points.index_tip.y > points.index_pip.y - CloseMargin
                 /\ points.middle_tip.y > points.middle_pip.y - CloseMargin
                 /\ points.ring_tip.y > points.ring_pip.y - CloseMargin
                 /\ points.pinky_tip.y > points.pinky_pip.y - CloseMargin
         IN  thumb_down /\ other_fingers_closed

detect_minimize_window_gesture(hand_landmarks) ==
    IF ~hand_landmarks.present THEN FALSE
    ELSE LET points == _get_landmark_points(hand_landmarks.landmark)
             thumb_down == /\ points.thumb_tip.y > points.thumb_ip.y
                           /\ points.thumb_ip.y > points.thumb_mcp.y
             other_fingers_closed ==
                 /\ points.index_tip.y > points.index_pip.y
                 /\ points.middle_tip.y > points.middle_pip.y
                 /\ points.ring_tip.y > points.ring_pip.y
                 /\ points.pinky_tip.y > points.pinky_pip.y
         IN  thumb_down /\ other_fingers_closed

\* The open-hand classifier with `if hand_landmarks' for `if not hand_landmarks'
detect_direct_window_control_gesture_absent(hand_landmarks) ==
    ~hand_landmarks.present

detect_direct_window_control_gesture(hand_landmarks) ==
    IF ~hand_landmarks.present THEN FALSE
    ELSE LET points == _get_landmark_points(hand_landmarks.landmark)
             thumb_extended == points.thumb_tip.y < points.thumb_ip.y - ExtendMargin
             index_extended == points.index_tip.y < points.index_pip.y - ExtendMargin
             middle_extended == points.middle_tip.y < points.middle_pip.y - ExtendMargin
             ring_extended == points.ring_tip.y < points.ring_pip.y - ExtendMargin
             pinky_extended == points.pinky_tip.y < points.pinky_pip.y - ExtendMargin
         IN  thumb_extended /\ index_extended /\ middle_extended
             /\ ring_extended /\ pinky_extended

\* The chain with the open-hand test moved to the front
ResolveOpenFirst(hand_landmarks) ==
    IF detect_direct_window_control_gesture(hand_landmarks)
    THEN "DIRECT_WINDOW_CONTROL"
    ELSE IF detect_ok_gesture(hand_landmarks) THEN "OK"
    ELSE IF detect_thumbs_up(hand_landmarks) THEN "THUMBS_UP"
    ELSE IF detect_copy_gesture(hand_landmarks) THEN "COPY_GESTURE"
    ELSE IF detect_paste_gesture(hand_landmarks) THEN "PASTE_GESTURE"
    ELSE IF detect_move_window_gesture(hand_landmarks) THEN "MOVE_WINDOW"
    ELSE IF detect_resize_window_gesture(hand_landmarks) THEN "RESIZE_WINDOW"
    ELSE IF detect_minimize_window_gesture(hand_landmarks) THEN "MINIMIZE_WINDOW"
    ELSE "NONE"

\* The if/elif chain of _process_gestures: the branch that is taken, named by
\* the label the branch passes to execute_action ("NONE" for the else branch).
Resolve(hand_landmarks) ==
    IF detect_ok_gesture(hand_landmarks) THEN "OK"
    ELSE IF detect_thumbs_up(hand_landmarks) THEN "THUMBS_UP"
    ELSE IF detect_copy_gesture(hand_landmarks) THEN "COPY_GESTURE"
    ELSE IF detect_paste_gesture(hand_landmarks) THEN "PASTE_GESTURE"
    ELSE IF detect_move_window_gesture(hand_landmarks) THEN "MOVE_WINDOW"
    ELSE IF detect_resize_window_gesture(hand_landmarks) THEN "RESIZE_WINDOW"
    ELSE IF detect_minimize_window_gesture(hand_landmarks) THEN "MINIMIZE_WINDOW"
    ELSE IF detect_direct_window_control_gesture(hand_landmarks)
         THEN "DIRECT_WINDOW_CONTROL"
    ELSE "NONE"

----------------------------------------------------------------------------
\* Action dispatcher

\* The controller's fields together with the clock and what the step has
\* done so far; the handlers below are functions of such a record.
Self ==
    [now |-> now,
     last_action_time |-> last_action_time,
     gesture_detected |-> gesture_detected,
     direct_control_active |-> direct_control_active,
     last_hand_position |-> last_hand_position,
     window_initial_position |-> window_initial_position,
     move_mode_activated |-> move_mode_activated,
     last_window_move_time |-> last_window_move_time,
     invoked |-> << >>,
     os_log |-> << >>,
     printed |-> << >>,
     raised |-> FALSE]

\* An OS primitive the program calls at clock reading `at'; ok is FALSE when
\* the call raises.
OsCall(o, a, at, k) == [op |-> o, arg |-> a, t |-> at, ok |-> k]

\* time.sleep(d)
Sleep(s, d) == [s EXCEPT !.now = @ + d]

\* The key sequence of one keyboard action: `calls' are issued in order with
\* time.sleep(0.1) between them; call number `fail' raises (0: none does),
\* which the except clause of execute_action catches and reports.
SendKeys(s, calls, fail, msg) ==
    LET n == Len(calls)
        done == IF fail \in 1..n THEN fail ELSE n
        issued == [k \in 1..done |->
                      OsCall(calls[k].op, calls[k].arg, s.now + (k - 1) * KeySleep,
                             k # fail)]
        slept == IF fail \in 1..n THEN fail - 1 ELSE n - 1
        s1 == [Sleep(s, slept * KeySleep) EXCEPT !.os_log = @ \o issued]
    IN  IF fail \in 1..n
        THEN [s1 EXCEPT !.printed = Append(@, "error")]
        ELSE [s1 EXCEPT !.printed = Append(@, msg)]

\* The branch with the mode switched on only after pyautogui.position()
ToggleDirectControlLate(s, fail) ==
    IF ~s.direct_control_active
    THEN IF fail = 1
         THEN [s EXCEPT !.printed = Append(@, "error")]
         ELSE [s EXCEPT !.direct_control_active = TRUE,
                        !.window_initial_position = MousePos,
                        !.last_hand_position = None,
                        !.move_mode_activated = "False",
                        !.printed = Append(@, "direct_on")]
    ELSE [s EXCEPT !.direct_control_active = FALSE,
                   !.move_mode_activated = "unset",
                   !.printed = Append(@, "direct_off")]

\* The direct_window_control branch of execute_action; pyautogui.position()
\* is its only OS call.
ToggleDirectControl(s, fail) ==
    IF ~s.direct_control_active
    THEN LET s1 == [s EXCEPT !.direct_control_active = TRUE]
         IN  IF fail = 1
             THEN [s1 EXCEPT !.printed = Append(@, "error")]
             ELSE [s1 EXCEPT !.window_initial_position = MousePos,
                             !.last_hand_position = None,
                             !.move_mode_activated = "False",
                             !.printed = Append(@, "direct_on")]
    ELSE [s EXCEPT !.direct_control_active = FALSE,
                   !.move_mode_activated = "unset",
                   !.printed = Append(@, "direct_off")]

RunAction(s, action_config, fail) ==
    IF action_config.kind = "app"
    THEN IF fail = 1
         THEN [s EXCEPT !.os_log = Append(@, OsCall("Popen", action_config.what, s.now, FALSE)),
                        !.printed = Append(@, "error")]
         ELSE [s EXCEPT !.os_log = Append(@, OsCall("Popen", action_config.what, s.now, TRUE))]
    ELSE CASE action_config.what = "copy" ->
                SendKeys(s, <<[op |-> "hotkey", arg |-> "ctrl+c"]>>, fail, "copied")
           [] action_config.what = "paste" ->
                SendKeys(s, <<[op |-> "hotkey", arg |-> "ctrl+v"]>>, fail, "pasted")
           [] action_config.what = "move_window" ->
                SendKeys(s, <<[op |-> "hotkey", arg |-> "alt+space"],
                              [op |-> "press", arg |-> "m"]>>, fail, "move_mode")
           [] action_config.what = "resize_window" ->
                SendKeys(s, <<[op |-> "hotkey", arg |-> "alt+space"],
                              [op |-> "press", arg |-> "s"]>>, fail, "resize_mode")
           [] action_config.what = "minimize_window" ->
                SendKeys(s, <<[op |-> "hotkey", arg |-> "alt+space"],
                              [op |-> "press", arg |-> "n"]>>, fail, "minimized")
           [] action_config.what = "direct_window_control" ->
                ToggleDirectControl(s, fail)
           [] OTHER -> s

\* The cooldown test one tick short
CooldownActiveShort(current_time, last) == current_time - last < action_cooldown - 1

\* The cooldown test with <= for <
CooldownActiveInclusive(current_time, last) == current_time - last <= action_cooldown

CooldownActive(current_time, last) == current_time - last < action_cooldown

\* execute_action without the warning for an undefined gesture
execute_action_silent(s, gesture_type, fail) ==
    LET current_time == s.now
        s0 == [s EXCEPT !.invoked = Append(@, gesture_type)]
    IN  IF CooldownActive(current_time, s.last_action_time)
        THEN s0
        ELSE LET s1 == [s0 EXCEPT !.last_action_time = current_time]
             IN  IF gesture_type \in DOMAIN LoadedActions
                 THEN RunAction([s1 EXCEPT !.printed = Append(@, "detected")],
                                LoadedActions[gesture_type], fail)
                 ELSE s1

\* execute_action without the try statement: the error of the OS call leaves
\* the method
execute_action_uncaught(s, gesture_type, fail) ==
    LET current_time == s.now
        s0 == [s EXCEPT !.invoked = Append(@, gesture_type)]
    IN  IF CooldownActive(current_time, s.last_action_time)
        THEN s0
        ELSE LET s1 == [s0 EXCEPT !.last_action_time = current_time]
             IN  IF gesture_type \in DOMAIN LoadedActions
                 THEN LET r == RunAction([s1 EXCEPT !.printed = Append(@, "detected")],
                                         LoadedActions[gesture_type], fail)
                      IN  [r EXCEPT !.raised = \E k \in DOMAIN r.printed : r.printed[k] = "error"]
                 ELSE [s1 EXCEPT !.printed = Append(@, "undefined")]

execute_action(s, gesture_type, fail) ==
    LET current_time == s.now
        s0 == [s EXCEPT !.invoked = Append(@, gesture_type)]
    IN  IF CooldownActive(current_time, s.last_action_time)
        THEN s0
        ELSE LET s1 == [s0 EXCEPT !.last_action_time = current_time]
             IN  IF gesture_type \in DOMAIN LoadedActions
                 THEN RunAction([s1 EXCEPT !.printed = Append(@, "detected")],
                                LoadedActions[gesture_type], fail)
                 ELSE [s1 EXCEPT !.printed = Append(@, "undefined")]

----------------------------------------------------------------------------
\* Continuous window control

Abs(n) == IF n < 0 THEN 0 - n ELSE n

\* int(palm * screen size) of a normalised coordinate in thousandths
ToScreen(coord, size) == (coord * size) \div 1000

\* The gate half a second short
GateClosedShort(current_time, last) == current_time - last < MoveGate - 1

GateClosed(current_time, last) == current_time - last < MoveGate

\* The threshold test with >= for >
ExceedsInclusive(delta) == Abs(delta) >= MoveThreshold

Exceeds(delta) == Abs(delta) > MoveThreshold

\* The move command keeping its time in the timer of the action cooldown too
MoveCommandSharedTimer(s, arrow, current_time) ==
    [Sleep([s EXCEPT !.os_log = Append(@, OsCall("hotkey", arrow, s.now, TRUE))],
           SettleSleep)
        EXCEPT !.last_window_move_time = current_time,
               !.last_action_time = current_time]

\* One pyautogui.hotkey('win', <arrow>) followed by time.sleep(0.5) and the
\* update of last_window_move_time.
MoveCommand(s, arrow, current_time) ==
    [Sleep([s EXCEPT !.os_log = Append(@, OsCall("hotkey", arrow, s.now, TRUE))],
           SettleSleep)
        EXCEPT !.last_window_move_time = current_time]

\* The hotkey call raises: the except clause reports it
MoveFailed(s, arrow) ==
    [s EXCEPT !.os_log = Append(@, OsCall("hotkey", arrow, s.now, FALSE)),
              !.printed = Append(@, "move_error")]

ArrowX(delta_x) == IF delta_x > 0 THEN "win+right" ELSE "win+left"

ArrowY(delta_y) == IF delta_y > 0 THEN "win+down" ELSE "win+up"

\* sfail: pyautogui.size() raises (outside the try block, so it propagates);
\* mfail: the number of the hotkey call that raises inside the try block.
_process_direct_window_control(s, hand_landmarks, sfail, mfail) ==
    IF ~s.direct_control_active THEN s
    ELSE IF sfail THEN [s EXCEPT !.raised = TRUE]
    ELSE
    LET palm == hand_landmarks.landmark[9]
        screen_x == ToScreen(palm.x, ScreenWidth)
        screen_y == ToScreen(palm.y, ScreenHeight)
        pos == <<screen_x, screen_y>>
    IN  IF s.last_hand_position = None
        THEN [s EXCEPT !.last_hand_position = pos]
        ELSE
        LET delta_x == screen_x - s.last_hand_position[1]
            delta_y == screen_y - s.last_hand_position[2]
            current_time == s.now
        IN  IF GateClosed(current_time, s.last_window_move_time)
            THEN s
            ELSE
            LET xcmd == Exceeds(delta_x)
                ycmd == Exceeds(delta_y)
                xfail == xcmd /\ mfail = 1
                yfail == ycmd /\ mfail = (IF xcmd THEN 2 ELSE 1)
                sx == IF ~xcmd THEN s
                      ELSE IF xfail THEN MoveFailed(s, ArrowX(delta_x))
                      ELSE MoveCommand(s, ArrowX(delta_x), current_time)
                sy == IF xfail \/ ~ycmd THEN sx
                      ELSE IF yfail THEN MoveFailed(sx, ArrowY(delta_y))
                      ELSE MoveCommand(sx, ArrowY(delta_y), current_time)
            IN  [sy EXCEPT !.last_hand_position = pos]

----------------------------------------------------------------------------
\* Frame processing

\* The body every gesture branch shares: the rising-edge test around
\* execute_action.
\* The branch body without the rising-edge test
TriggerEveryFrame(s, gesture_type, efail) ==
    [execute_action(s, gesture_type, efail) EXCEPT !.gesture_detected = TRUE]

\* The branch body that sets gesture_detected only when the call passed the
\* cooldown test
TriggerRetry(s, gesture_type, efail) ==
    IF ~s.gesture_detected
    THEN [execute_action(s, gesture_type, efail)
             EXCEPT !.gesture_detected = ~CooldownActive(s.now, s.last_action_time)]
    ELSE s

Trigger(s, gesture_type, efail) ==
    IF ~s.gesture_detected
    THEN [execute_action(s, gesture_type, efail) EXCEPT !.gesture_detected = TRUE]
    ELSE s

\* The key of COLORS each branch of _process_gestures reads for the default
\* of its colour lookup; the default is evaluated before the lookup.
ColorKey(g) ==
    CASE g = "OK" -> "ok_gesture"
      [] g = "THUMBS_UP" -> "thumbs_up"
      [] g = "COPY_GESTURE" -> "copy"
      [] g = "PASTE_GESTURE" -> "paste"
      [] g = "MOVE_WINDOW" -> "move"
      [] g = "RESIZE_WINDOW" -> "resize"
      [] g = "MINIMIZE_WINDOW" -> "minimize"
      [] g = "DIRECT_WINDOW_CONTROL" -> "direct_control"

\* _process_gestures with an else branch that leaves gesture_detected alone
_process_gestures_noreset(s, hand_landmarks, efail, sfail, mfail) ==
    LET g == Resolve(hand_landmarks)
    IN  IF g = "NONE"
        THEN s
        ELSE LET s1 == Trigger(s, g, efail)
             IN  IF g = "DIRECT_WINDOW_CONTROL" /\ s1.direct_control_active
                 THEN _process_direct_window_control(s1, hand_landmarks, sfail, mfail)
                 ELSE s1

\* _process_gestures with the tracking pass after every gesture branch
_process_gestures_trackall(s, hand_landmarks, efail, sfail, mfail) ==
    LET g == Resolve(hand_landmarks)
    IN  IF g = "NONE"
        THEN [s EXCEPT !.gesture_detected = FALSE]
        ELSE LET s1 == Trigger(s, g, efail)
             IN  IF s1.direct_control_active
                 THEN _process_direct_window_control(s1, hand_landmarks, sfail, mfail)
                 ELSE s1

\* _process_gestures with the tracking pass before the dispatch, decided by
\* the mode the frame began in
_process_gestures_trackfirst(s, hand_landmarks, efail, sfail, mfail) ==
    LET g == Resolve(hand_landmarks)
    IN  IF g = "NONE"
        THEN [s EXCEPT !.gesture_detected = FALSE]
        ELSE LET s0 == IF g = "DIRECT_WINDOW_CONTROL" /\ s.direct_control_active
                       THEN _process_direct_window_control(s, hand_landmarks, sfail, mfail)
                       ELSE s
             IN  IF s0.raised THEN s0 ELSE Trigger(s0, g, efail)

_process_gestures(s, hand_landmarks, efail, sfail, mfail) ==
    LET g == Resolve(hand_landmarks)
    IN  IF g = "NONE"
        THEN [s EXCEPT !.gesture_detected = FALSE]
        ELSE IF ColorKey(g) \notin LoadedColors
        THEN [s EXCEPT !.printed = Append(@, "KeyError"), !.raised = TRUE]
        ELSE LET s1 == Trigger(s, g, efail)
             IN  IF g = "DIRECT_WINDOW_CONTROL" /\ s1.direct_control_active
                 THEN _process_direct_window_control(s1, hand_landmarks, sfail, mfail)
                 ELSE s1

Min(a, b) == IF a < b THEN a ELSE b

\* The window-move commands ('win' with an arrow key) among the OS calls q
MoveArrows == {"win+right", "win+left", "win+up", "win+down"}

IsMove(c) == c.op = "hotkey" /\ c.arg \in MoveArrows

Moves(q) == SelectSeq(q, IsMove)

\* The move commands of q that went through (the call did not raise)
Sent(c) == IsMove(c) /\ c.ok

SentMoves(q) == SelectSeq(q, Sent)

Range(q) == {q[k] : k \in DOMAIN q}

\* End of a step that began at clock reading t: the fields take the values of
\* s, and the record of the step (hand h, label l) is kept.  An exception
\* that leaves the step is caught by run(), whose finally clause calls
\* _cleanup.
Commit(s, h, l, t) ==
    /\ now' = s.now
    /\ frame_time' = t
    /\ last_action_time' = s.last_action_time
    /\ gesture_detected' = s.gesture_detected
    /\ direct_control_active' = s.direct_control_active
    /\ last_hand_position' = s.last_hand_position
    /\ window_initial_position' = s.window_initial_position
    /\ move_mode_activated' = s.move_mode_activated
    /\ last_window_move_time' = s.last_window_move_time
    /\ invoked' = s.invoked
    /\ os_log' = s.os_log
    /\ printed' = s.printed
    /\ pc' = IF s.raised THEN "done" ELSE pc
    /\ hand' = h
    /\ label' = l
    /\ streak' = IF l = label THEN Min(streak + 1, MaxStreak) ELSE 1
    /\ prev_action_time' = last_action_time
    /\ last_fire' = IF "detected" \in Range(s.printed) THEN t ELSE last_fire
    /\ prev_hand_position' = last_hand_position
    /\ dropped_edge' = IF ~s.gesture_detected THEN FALSE
                       ELSE IF s.invoked = << >> THEN dropped_edge
                       ELSE s.last_action_time = last_action_time
    /\ last_move_frame' = IF SentMoves(s.os_log) # << >> THEN t ELSE last_move_frame
    /\ last_move_at' = IF SentMoves(s.os_log) # << >>
                       THEN SentMoves(s.os_log)[Len(SentMoves(s.os_log))].t
                       ELSE last_move_at
    /\ adapter_result' = adapter_result
    /\ cleanups' = IF s.raised THEN cleanups + 1 ELSE cleanups
    /\ UNCHANGED <<config_loaded, cap_opened>>

----------------------------------------------------------------------------
\* Inputs

Far == 2 * ok_distance
Near == ExtendMargin
Down == ExtendMargin + CloseMargin
Up == 0 - Down
Centre == <<500, 500>>
PalmXs == {500, 531}
PalmYs == {500, 531}

OkHand       == MkHand(Down, Down, Up, Up, Up, 0, Near, Centre)
OkOpenHand   == MkHand(Up, Up, Up, Up, Up, 0, Near, Centre)
ThumbsUpHand == MkHand(Up, Down, Down, Down, Down, Down, Far, Centre)
CopyHand     == MkHand(Down, Up, Up, Down, Down, 0, Far, Centre)
PasteHand    == MkHand(Up, Up, Down, Down, Down, 0, Far, Centre)
MoveHand     == MkHand(Down, Up, Up, Up, Down, 0, Far, Centre)
ResizeHand   == MkHand(Up, Up, Up, Down, Down, 0, Far, Centre)
MinimizeHand == MkHand(Down, Down, Down, Down, Down, Up, Far, Centre)
RelaxedHand  == MkHand(0, 0, 0, 0, 0, 0, Far, Centre)
OpenHand(palm) == MkHand(Up, Up, Up, Up, Up, 0, Far, palm)

\* One hand per gesture, all held at the same place
Hands ==
    {OkHand, OkOpenHand, ThumbsUpHand, CopyHand, PasteHand, MoveHand,
     ResizeHand, MinimizeHand, RelaxedHand, OpenHand(Centre)}

\* The open hand at several places, with one other gesture and a relaxed hand
TrackHands ==
    {OpenHand(<<px, py>>) : px \in PalmXs, py \in PalmYs}
    \cup {OkHand, RelaxedHand}

\* The labels the unit tests pass to execute_action
CallLabels == {"OK", "INVALID_GESTURE"}

\* The number of OS calls the action of label g makes inside the try block
OsCalls(g) ==
    IF g \notin DOMAIN LoadedActions THEN 0
    ELSE IF LoadedActions[g].kind = "app" THEN 1
    ELSE IF LoadedActions[g].what \in {"move_window", "resize_window", "minimize_window"} THEN 2
    ELSE 1

\* The faults a step with label g can meet: e is the number of the OS call of
\* execute_action that raises, m the number of the move command that raises
\* (0: none), s whether the screen-size query raises.
Faults(g) ==
    [e : 0..OsCalls(g),
     s : IF g = "DIRECT_WINDOW_CONTROL" THEN BOOLEAN ELSE {FALSE},
     m : IF g = "DIRECT_WINDOW_CONTROL" THEN 0..2 ELSE {0}]

----------------------------------------------------------------------------
\* Specification

\* The state _setup_controls leaves when PERFORMANCE_CONFIG['frame_skip'] is
\* k, before a first frame showing hand h
InitState(h, k) ==
    /\ now = StartClock
    /\ pc = "loop"
    /\ last_action_time = 0
    /\ gesture_detected = FALSE
    /\ direct_control_active = FALSE
    /\ last_hand_position = None
    /\ window_initial_position = None
    /\ move_mode_activated = "unset"
    /\ last_window_move_time = 0
    /\ hand = h
    /\ label = "START"
    /\ invoked = << >>
    /\ frame_time = StartClock
    /\ os_log = << >>
    /\ printed = << >>
    /\ streak = 1
    /\ prev_action_time = 0
    /\ last_fire = 0
    /\ prev_hand_position = None
    /\ last_move_frame = 0
    /\ dropped_edge = FALSE
    /\ last_move_at = 0
    /\ adapter_result = [status |-> "unset"]
    /\ config_loaded = TRUE
    /\ cap_opened = TRUE
    /\ cleanups = 0
    /\ failed_at = 0
    /\ frame_skip = k
    /\ frame_count = 0
    /\ skipped_absent = FALSE
    /\ bridged_absent = FALSE

\* The state _setup_controls leaves with the frame_skip of config.py
InitWith(h) == InitState(h, 1)

Init == InitWith(NoHand)

\* One iteration of the loop of run(), d ticks after the last step, in which
\* the detector finds one of the hands of HS
FrameOf(HS, horizon) ==
    \E d \in Elapsed, h \in HS :
        \E f \in Faults(Resolve(h)) :
            /\ pc = "loop"
            /\ now + d <= horizon
            /\ Commit(_process_gestures([Self EXCEPT !.now = now + d], h, f.e, f.s, f.m),
                      h, Resolve(h), now + d)
            /\ UNCHANGED <<failed_at, frame_skip, frame_count, skipped_absent, bridged_absent>>

\* The iteration without a hand that leaves gesture_detected alone
NoHandOfKeep(horizon) ==
    \E d \in Elapsed :
        /\ pc = "loop"
        /\ now + d <= horizon
        /\ Commit([Self EXCEPT !.now = now + d], NoHand, "NOHAND", now + d)
        /\ UNCHANGED <<failed_at, frame_skip, frame_count, skipped_absent, bridged_absent>>

\* One iteration of the loop of run() in which the detector finds no hand
NoHandOf(horizon) ==
    \E d \in Elapsed :
        /\ pc = "loop"
        /\ now + d <= horizon
        /\ Commit([Self EXCEPT !.now = now + d, !.gesture_detected = FALSE],
                  NoHand, "NOHAND", now + d)
        /\ UNCHANGED <<failed_at, frame_skip, frame_count, skipped_absent, bridged_absent>>

HandFrame == FrameOf(Hands, MaxTime)

NoHandFrame == NoHandOf(MaxTime)

TrackFrame == FrameOf(TrackHands, MaxTrackTime)

TrackNoHandFrame == NoHandOf(MaxTrackTime)

\* execute_action called directly, as the unit tests do
ExecuteActionCall ==
    \E d \in Elapsed, g \in CallLabels :
        \E f \in Faults(g) :
            /\ pc = "loop"
            /\ now + d <= MaxTime
            /\ f.s = FALSE /\ f.m = 0
            /\ Commit(execute_action([Self EXCEPT !.now = now + d], g, f.e),
                      NoHand, "CALL", now + d)
            /\ UNCHANGED <<failed_at, frame_skip, frame_count, skipped_absent, bridged_absent>>

Next == HandFrame \/ NoHandFrame \/ ExecuteActionCall

Spec == Init /\ [][Next]_vars

\* The session restricted to the hands of the continuous window control
NextTrack == TrackFrame \/ TrackNoHandFrame

SpecTrack == Init /\ [][NextTrack]_vars

\* The first frame of a session, for every hand of a grid of poses: each tip
\* lies clearly above its joint, on either edge of the margin band, above
\* the joint by less than the closure margin, level with the joint, or
\* clearly below it; thumb and index tip are nearer than, exactly, or
\* farther than ok_distance apart.
PoseOffsets ==
    {Up, 0 - ExtendMargin, 0 - CloseMargin, 0 - (CloseMargin \div 2), 0, Down}

PoseGrid ==
    {MkHand(t, i, m, r, p, mcp, dx, Centre) :
        t \in PoseOffsets, i \in PoseOffsets, m \in PoseOffsets,
        r \in PoseOffsets, p \in PoseOffsets,
        mcp \in {Up, 0, Down}, dx \in {Near, ok_distance, Far}}

InitPose == \E h \in PoseGrid \cup {NoHand} : InitWith(h)

PoseFrame ==
    \E f \in Faults(Resolve(hand)) :
        /\ pc = "loop"
        /\ label = "START"
        /\ Commit(_process_gestures(Self, hand, f.e, f.s, f.m),
                  hand, Resolve(hand), now)
        /\ UNCHANGED <<failed_at, frame_skip, frame_count, skipped_absent, bridged_absent>>

NextPose == PoseFrame

SpecPose == InitPose /\ [][NextPose]_vars

\* A session long enough to switch the continuous control on, off and on
\* again, with the open hand at two places
ReactHands == {OpenHand(Centre), OpenHand(<<531, 500>>)}

ReactFrame == FrameOf(ReactHands, MaxReactTime)

ReactNoHandFrame == NoHandOf(MaxReactTime)

NextReact == ReactFrame \/ ReactNoHandFrame

SpecReact == Init /\ [][NextReact]_vars

\* A short session with the open hand at places one pixel below, at and one
\* pixel above the move threshold away from the centre
MovePalmXs ==
    {Centre[1], Centre[1] + MoveThreshold - 1, Centre[1] + MoveThreshold,
     Centre[1] + MoveThreshold + 1}

MovePalmYs ==
    {Centre[2], Centre[2] + MoveThreshold, Centre[2] + MoveThreshold + 1}

MoveHands == {OpenHand(<<px, py>>) : px \in MovePalmXs, py \in MovePalmYs}

MoveFrame == FrameOf(MoveHands, MaxMoveTime)

MoveNoHandFrame == NoHandOf(MaxMoveTime)

NextMove == MoveFrame \/ MoveNoHandFrame

SpecMove == Init /\ [][NextMove]_vars

\* _get_landmark_points called once on its own, as test_get_landmark_points
\* does, with the skeletons of the pose grid, an empty sequence, a sequence
\* of five points and no sequence at all
EmptyHand == [present |-> TRUE, landmark |-> << >>]

ShortHand == [present |-> TRUE, landmark |-> [k \in 0..4 |-> Pt(500, 500)]]

\* One call with input h; an error ends the caller
AdapterCallWith(h) ==
    /\ adapter_result' = LandmarkAdapter(h)
    /\ hand' = h
    /\ label' = "ADAPTER"
    /\ pc' = IF LandmarkAdapter(h).status = "points" THEN pc ELSE "done"
    /\ UNCHANGED <<now, last_action_time, gesture_detected, direct_control_active,
                   last_hand_position, window_initial_position,
                   move_mode_activated, last_window_move_time, invoked,
                   frame_time, os_log, printed, streak, prev_action_time,
                   last_fire, prev_hand_position, last_move_frame,
                   last_move_at, dropped_edge, config_loaded, cap_opened,
                   cleanups, failed_at, frame_skip, frame_count,
                   skipped_absent, bridged_absent>>

AdapterCall ==
    /\ pc = "loop"
    /\ label = "START"
    /\ \E h \in PoseGrid : AdapterCallWith(h)

AdapterCallEmpty ==
    /\ pc = "loop"
    /\ label = "START"
    /\ \E h \in {EmptyHand, ShortHand, NoHand} : AdapterCallWith(h)

NextAdapter == AdapterCall \/ AdapterCallEmpty

SpecAdapter == Init /\ [][NextAdapter]_vars

\* The whole program, from main() on: the import of config.py has succeeded
\* or fallen back to the defaults, and no controller exists yet.  The fields
\* hold no value before _setup_controls assigns them; the values written
\* here are never read.
InitMain ==
    /\ now = StartClock
    /\ pc = "main"
    /\ config_loaded \in BOOLEAN
    /\ cap_opened = FALSE
    /\ cleanups = 0
    /\ failed_at = 0
    /\ frame_skip = 1
    /\ frame_count = 0
    /\ skipped_absent = FALSE
    /\ bridged_absent = FALSE
    /\ last_action_time = 0
    /\ gesture_detected = FALSE
    /\ direct_control_active = FALSE
    /\ last_hand_position = None
    /\ window_initial_position = None
    /\ move_mode_activated = "unset"
    /\ last_window_move_time = 0
    /\ hand = NoHand
    /\ label = "START"
    /\ invoked = << >>
    /\ frame_time = StartClock
    /\ os_log = << >>
    /\ printed = << >>
    /\ streak = 1
    /\ prev_action_time = 0
    /\ last_fire = 0
    /\ prev_hand_position = None
    /\ last_move_frame = 0
    /\ dropped_edge = FALSE
    /\ last_move_at = 0
    /\ adapter_result = [status |-> "unset"]

\* _setup_camera that does not test isOpened()
_setup_camera_unchecked(opened) == "ok"

\* The outcome of _setup_camera when VideoCapture(0) is opened or not
_setup_camera(opened) == IF opened THEN "ok" ELSE "RuntimeError"

\* _setup_controls starting the cooldown at the clock reading of construction
_setup_controls_clock ==
    [last_action_time |-> now,
     gesture_detected |-> FALSE,
     direct_control_active |-> FALSE,
     last_hand_position |-> None,
     window_initial_position |-> None,
     last_window_move_time |-> 0,
     frame_skip |-> 1,
     frame_count |-> 0]

\* The fields _setup_controls assigns
_setup_controls ==
    [last_action_time |-> 0,
     gesture_detected |-> FALSE,
     direct_control_active |-> FALSE,
     last_hand_position |-> None,
     window_initial_position |-> None,
     last_window_move_time |-> 0,
     frame_skip |-> 1,
     frame_count |-> 0]

\* main() constructs the controller: _setup_camera, then _setup_controls.
\* The RuntimeError of _setup_camera leaves __init__ and is caught by main(),
\* which prints it and returns without calling run().
Construct ==
    /\ pc = "main"
    /\ \E opened \in BOOLEAN :
        /\ cap_opened' = opened
        /\ IF _setup_camera(opened) = "ok"
           THEN /\ pc' = "loop"
                /\ last_action_time' = _setup_controls.last_action_time
                /\ gesture_detected' = _setup_controls.gesture_detected
                /\ direct_control_active' = _setup_controls.direct_control_active
                /\ last_hand_position' = _setup_controls.last_hand_position
                /\ window_initial_position' = _setup_controls.window_initial_position
                /\ last_window_move_time' = _setup_controls.last_window_move_time
                /\ frame_skip' = _setup_controls.frame_skip
                /\ frame_count' = _setup_controls.frame_count
                /\ printed' = << >>
           ELSE /\ pc' = "aborted"
                /\ printed' = <<"init_error">>
                /\ UNCHANGED <<last_action_time, gesture_detected,
                               direct_control_active, last_hand_position,
                               window_initial_position, last_window_move_time,
                               frame_skip, frame_count>>
    /\ UNCHANGED <<now, move_mode_activated, hand, label, invoked, frame_time,
                   os_log, streak, prev_action_time, last_fire,
                   prev_hand_position, last_move_frame, last_move_at,
                   dropped_edge, adapter_result, config_loaded, cleanups,
                   failed_at, skipped_absent, bridged_absent>>

\* The ways the loop of run() ends other than an exception of a frame: the
\* quit key, the closed window, a failed read, the interrupt signal
LoopEnds == {"QUIT", "CLOSED", "READ_FAILED", "INTERRUPT"}

\* The loop left without the finally clause
LoopEndNoCleanup ==
    /\ pc = "loop"
    /\ \E c \in LoopEnds :
        /\ pc' = "done"
        /\ label' = c
        /\ cleanups' = cleanups
    /\ invoked' = << >>
    /\ os_log' = << >>
    /\ printed' = << >>
    /\ UNCHANGED <<now, last_action_time, gesture_detected, direct_control_active,
                   last_hand_position, window_initial_position,
                   move_mode_activated, last_window_move_time, hand, frame_time,
                   streak, prev_action_time, last_fire, prev_hand_position,
                   last_move_frame, last_move_at, dropped_edge, adapter_result,
                   config_loaded, cap_opened, failed_at, frame_skip,
                   frame_count, skipped_absent, bridged_absent>>

\* The loop ends by a break or by KeyboardInterrupt; the finally clause of
\* run() calls _cleanup.
LoopEnd ==
    /\ pc = "loop"
    /\ \E c \in LoopEnds :
        /\ pc' = "done"
        /\ label' = c
        /\ cleanups' = cleanups + 1
    /\ invoked' = << >>
    /\ os_log' = << >>
    /\ printed' = << >>
    /\ UNCHANGED <<now, last_action_time, gesture_detected, direct_control_active,
                   last_hand_position, window_initial_position,
                   move_mode_activated, last_window_move_time, hand, frame_time,
                   streak, prev_action_time, last_fire, prev_hand_position,
                   last_move_frame, last_move_at, dropped_edge, adapter_result,
                   config_loaded, cap_opened, failed_at, frame_skip,
                   frame_count, skipped_absent, bridged_absent>>

\* One iteration of the loop of run() with a hand, as FrameOf, keeping the
\* time of the last caught failure of execute_action
RunFrame ==
    \E d \in Elapsed, h \in Hands :
        \E f \in Faults(Resolve(h)) :
            LET s == _process_gestures([Self EXCEPT !.now = now + d], h, f.e, f.s, f.m)
            IN  /\ pc = "loop"
                /\ now + d <= MaxRunTime
                /\ Commit(s, h, Resolve(h), now + d)
                /\ failed_at' = IF "error" \in Range(s.printed)
                                THEN now + d ELSE failed_at
                /\ UNCHANGED <<frame_skip, frame_count, skipped_absent,
                               bridged_absent>>

RunNoHandFrame == NoHandOf(MaxRunTime)

\* A session in which PERFORMANCE_CONFIG['frame_skip'] is one of a few
\* factors, with the hand coming and going between the captured frames
SkipFactors == {1, 2, 3}

SkipHands == {OkHand, CopyHand}

InitSkip == \E k \in SkipFactors : InitState(NoHand, k)

\* A skipped frame that still resets gesture_detected when it shows no hand
SkippedFrameResets ==
    \E d \in Elapsed, h \in SkipHands \cup {NoHand} :
        /\ pc = "loop"
        /\ now + d <= MaxSkipTime
        /\ frame_count < MaxFrames
        /\ (frame_count + 1) % frame_skip # 0
        /\ frame_count' = frame_count + 1
        /\ now' = now + d
        /\ skipped_absent' = (skipped_absent \/ ~h.present)
        /\ gesture_detected' = (gesture_detected /\ h.present)
        /\ UNCHANGED <<pc, last_action_time, direct_control_active,
                       last_hand_position, window_initial_position,
                       move_mode_activated, last_window_move_time, hand, label,
                       invoked, frame_time, os_log, printed, streak,
                       prev_action_time, last_fire, prev_hand_position,
                       last_move_frame, last_move_at, dropped_edge,
                       adapter_result, config_loaded, cap_opened, cleanups,
                       failed_at, frame_skip, bridged_absent>>

\* One iteration of the loop of run() that ends at the continue statement:
\* the frame is read and counted, the counter is not a multiple of
\* frame_skip, and the frame, whatever it shows, is not looked at.
SkippedFrame ==
    \E d \in Elapsed, h \in SkipHands \cup {NoHand} :
        /\ pc = "loop"
        /\ now + d <= MaxSkipTime
        /\ frame_count < MaxFrames
        /\ (frame_count + 1) % frame_skip # 0
        /\ frame_count' = frame_count + 1
        /\ now' = now + d
        /\ skipped_absent' = (skipped_absent \/ ~h.present)
        /\ UNCHANGED <<pc, last_action_time, gesture_detected,
                       direct_control_active, last_hand_position,
                       window_initial_position, move_mode_activated,
                       last_window_move_time, hand, label, invoked, frame_time,
                       os_log, printed, streak, prev_action_time, last_fire,
                       prev_hand_position, last_move_frame, last_move_at,
                       dropped_edge, adapter_result, config_loaded, cap_opened,
                       cleanups, failed_at, frame_skip, bridged_absent>>

\* What an iteration that passes the frame_skip test does to the counter
Counted ==
    /\ frame_count < MaxFrames
    /\ (frame_count + 1) % frame_skip = 0
    /\ frame_count' = frame_count + 1
    /\ bridged_absent' = skipped_absent
    /\ skipped_absent' = FALSE
    /\ UNCHANGED <<frame_skip, failed_at>>

\* One iteration that passes the frame_skip test, with a hand
ProcessedFrame ==
    \E d \in Elapsed, h \in SkipHands :
        \E f \in Faults(Resolve(h)) :
            /\ pc = "loop"
            /\ now + d <= MaxSkipTime
            /\ Counted
            /\ Commit(_process_gestures([Self EXCEPT !.now = now + d], h, f.e, f.s, f.m),
                      h, Resolve(h), now + d)

\* One iteration that passes the frame_skip test, without a hand
ProcessedNoHandFrame ==
    \E d \in Elapsed :
        /\ pc = "loop"
        /\ now + d <= MaxSkipTime
        /\ Counted
        /\ Commit([Self EXCEPT !.now = now + d, !.gesture_detected = FALSE],
                  NoHand, "NOHAND", now + d)

NextSkip == SkippedFrame \/ ProcessedFrame \/ ProcessedNoHandFrame

SpecSkip == InitSkip /\ [][NextSkip]_vars

NextRun == Construct \/ RunFrame \/ RunNoHandFrame \/ LoopEnd

SpecRun == InitMain /\ [][NextRun]_vars

----------------------------------------------------------------------------
\* Properties

Gestures ==
    {"OK", "THUMBS_UP", "COPY_GESTURE", "PASTE_GESTURE", "MOVE_WINDOW",
     "RESIZE_WINDOW", "MINIMIZE_WINDOW", "DIRECT_WINDOW_CONTROL"}

Idle == {"NONE", "NOHAND"}

\* C1: while consecutive frames resolve to the same gesture, execute_action
\* is invoked on the first of them (the one that finds gesture_detected
\* false) and on none of the following ones.
C1_EdgeTriggered ==
    [][/\ (label' \in Gestures /\ ~gesture_detected) => invoked' = <<label'>>
       /\ (label' \in Gestures /\ label' = label) => invoked' = << >>]_vars

C1_Witness ==
    /\ label \in Gestures
    /\ streak >= 2
    /\ invoked = << >>
    /\ gesture_detected

\* C2: an action is dispatched only when at least action_cooldown has passed
\* since the last dispatched action, so a rising edge that comes earlier
\* fires nothing.
C2_CooldownBetweenFires ==
    [][("detected" \in Range(printed')) =>
          frame_time' - last_fire >= action_cooldown]_vars

C2_Witness ==
    /\ "detected" \in Range(printed)
    /\ prev_action_time >= StartClock
    /\ frame_time - prev_action_time = action_cooldown

\* C3: a change from one gesture directly to a different gesture is a rising
\* edge: execute_action is invoked for the new label.
C3_LabelChangeRetriggers ==
    [][(label \in Gestures /\ label' \in Gestures /\ label' # label) =>
          invoked' = <<label'>>]_vars

\* C4: the label of a frame is the first one in the order OK, THUMBS_UP,
\* COPY, PASTE, MOVE_WINDOW, RESIZE_WINDOW, MINIMIZE_WINDOW,
\* DIRECT_WINDOW_CONTROL whose classifier holds, NONE when none holds; a hand
\* that is both OK and open resolves to OK; a frame dispatches at most one
\* action, the one of its label.
Order ==
    <<"OK", "THUMBS_UP", "COPY_GESTURE", "PASTE_GESTURE", "MOVE_WINDOW",
      "RESIZE_WINDOW", "MINIMIZE_WINDOW", "DIRECT_WINDOW_CONTROL">>

Holds(g, h) ==
    CASE g = "OK" -> detect_ok_gesture(h)
      [] g = "THUMBS_UP" -> detect_thumbs_up(h)
      [] g = "COPY_GESTURE" -> detect_copy_gesture(h)
      [] g = "PASTE_GESTURE" -> detect_paste_gesture(h)
      [] g = "MOVE_WINDOW" -> detect_move_window_gesture(h)
      [] g = "RESIZE_WINDOW" -> detect_resize_window_gesture(h)
      [] g = "MINIMIZE_WINDOW" -> detect_minimize_window_gesture(h)
      [] g = "DIRECT_WINDOW_CONTROL" -> detect_direct_window_control_gesture(h)

Matching(h) == {k \in DOMAIN Order : Holds(Order[k], h)}

FirstMatch(h) ==
    IF Matching(h) = {} THEN "NONE"
    ELSE Order[CHOOSE k \in Matching(h) : \A j \in Matching(h) : k <= j]

C4_ResolverPriority ==
    label # "START" =>
        /\ label = FirstMatch(hand)
        /\ (detect_ok_gesture(hand) /\ detect_direct_window_control_gesture(hand))
              => label = "OK"
        /\ invoked \in {<< >>, <<label>>}
        /\ label = "NONE" => invoked = << >>
        /\ Len(os_log) > 0 => ("detected" \in Range(printed) /\ invoked = <<label>>)

C4_Witness ==
    /\ label = "OK"
    /\ detect_ok_gesture(hand)
    /\ detect_direct_window_control_gesture(hand)
    /\ invoked = <<"OK">>

\* C5: a frame without a hand, or with a hand that matches no classifier,
\* dispatches nothing and ends with gesture_detected false, and the next
\* frame that resolves to a gesture invokes execute_action.
C5_IdleFrameResets ==
    [][/\ label' \in Idle =>
             (invoked' = << >> /\ os_log' = << >> /\ ~gesture_detected')
       /\ (label \in Idle /\ label' \in Gestures) => invoked' = <<label'>>]_vars

C5_Witness ==
    /\ label \in Idle
    /\ last_fire >= StartClock
    /\ invoked = << >>
    /\ os_log = << >>
    /\ ~gesture_detected

\* C6: a call of execute_action made while the cooldown runs changes nothing:
\* no OS call, no message, last_action_time, direct_control_active and
\* last_hand_position as they were.
C6_CooldownNoOp ==
    [][(invoked' # << >> /\ frame_time' - last_action_time < action_cooldown) =>
          /\ os_log' = << >>
          /\ printed' = << >>
          /\ last_action_time' = last_action_time
          /\ direct_control_active' = direct_control_active
          /\ last_hand_position' = last_hand_position]_vars

C6_Witness ==
    /\ invoked = <<"DIRECT_WINDOW_CONTROL">>
    /\ frame_time - prev_action_time < action_cooldown
    /\ printed = << >>

\* C7: an OK frame that finds gesture_detected false and the cooldown over
\* (also when exactly action_cooldown has passed) calls Popen for the
\* notepad once, sends no key, sets last_action_time to the clock reading and
\* gesture_detected to true.
C7_OkLaunchesOnce ==
    [][(/\ label' = "OK"
        /\ ~gesture_detected
        /\ frame_time' - last_action_time >= action_cooldown) =>
          /\ Len(os_log') = 1
          /\ os_log'[1].op = "Popen"
          /\ os_log'[1].arg = "notepad.exe"
          /\ last_action_time' = frame_time'
          /\ gesture_detected']_vars

C7_Witness ==
    /\ label = "OK"
    /\ invoked = <<"OK">>
    /\ prev_action_time >= StartClock
    /\ frame_time - prev_action_time = action_cooldown
    /\ os_log = <<OsCall("Popen", "notepad.exe", frame_time, TRUE)>>
    /\ last_action_time = frame_time
    /\ gesture_detected

UnknownCall(q) == q # << >> /\ q[1] \notin DOMAIN ACTIONS_

\* C8 as stated: every call of execute_action with a label that has no entry
\* in the action table prints the warning, makes no OS call and leaves
\* direct_control_active alone.
C8_UnknownAlwaysWarns ==
    [][UnknownCall(invoked') =>
          /\ "undefined" \in Range(printed')
          /\ os_log' = << >>
          /\ direct_control_active' = direct_control_active]_vars

\* C8 amended: a call of execute_action with a label that has no entry in the
\* action table makes no OS call and leaves direct_control_active alone; it
\* prints the warning when the cooldown is over and nothing while it runs.
C8_UnknownWarnsAfterCooldown ==
    [][UnknownCall(invoked') =>
          /\ os_log' = << >>
          /\ direct_control_active' = direct_control_active
          /\ (frame_time' - last_action_time >= action_cooldown)
                => printed' = <<"undefined">>
          /\ (frame_time' - last_action_time < action_cooldown)
                => printed' = << >>]_vars

C8_Witness ==
    /\ invoked = <<"INVALID_GESTURE">>
    /\ printed = <<"undefined">>
    /\ os_log = << >>

\* C9: a call of execute_action that the cooldown suppresses, that carries an
\* unknown label, or whose OS call raises leaves last_action_time unchanged.
C9_OnlySuccessStartsCooldown ==
    [][(/\ invoked' # << >>
        /\ \/ frame_time' - last_action_time < action_cooldown
           \/ UnknownCall(invoked')
           \/ \E k \in DOMAIN os_log' : ~os_log'[k].ok) =>
          last_action_time' = last_action_time]_vars

\* C10: direct_control_active is a boolean that changes in exactly the steps
\* in which a DIRECT_WINDOW_CONTROL action is dispatched.
DirectDispatched(q, msgs) ==
    q = <<"DIRECT_WINDOW_CONTROL">> /\ "detected" \in Range(msgs)

C10_ToggleOnlyByDirect ==
    [][/\ direct_control_active' \in BOOLEAN
       /\ DirectDispatched(invoked', printed')
             <=> (direct_control_active' # direct_control_active)]_vars

C10_Witness ==
    /\ label = "DIRECT_WINDOW_CONTROL"
    /\ ~direct_control_active
    /\ "direct_off" \in Range(printed)
    /\ last_window_move_time >= StartClock

\* The screen position of the palm centre of hand h
PalmPos(h) ==
    <<ToScreen(h.landmark[9].x, ScreenWidth), ToScreen(h.landmark[9].y, ScreenHeight)>>

\* C11: whenever a step switches the continuous control from inactive to
\* active, the position cached in an earlier active period is discarded: the
\* step issues no move command and leaves the cache empty or holding the
\* position of this frame (the baseline).
C11_ActivationResetsBaseline ==
    [][(~direct_control_active /\ direct_control_active') =>
          /\ Moves(os_log') = << >>
          /\ last_hand_position' \in {None, PalmPos(hand')}]_vars

\* The labels of the move commands in q, in the order they were called
Args(q) == [k \in DOMAIN q |-> q[k].arg]

\* The move commands the displacement (dx, dy) calls for, horizontal first
ExpectedMoves(dx, dy) ==
    (IF dx > MoveThreshold THEN <<"win+right">>
     ELSE IF dx < 0 - MoveThreshold THEN <<"win+left">> ELSE << >>)
    \o (IF dy > MoveThreshold THEN <<"win+down">>
        ELSE IF dy < 0 - MoveThreshold THEN <<"win+up">> ELSE << >>)

\* A frame that tracks the hand with a baseline from an earlier frame and
\* the gate open: the mode is active before and after the frame, the label
\* is DIRECT_WINDOW_CONTROL and at least MoveGate has passed since
\* last_window_move_time.
OpenGateTracking ==
    /\ direct_control_active /\ direct_control_active'
    /\ label' = "DIRECT_WINDOW_CONTROL"
    /\ last_hand_position # None
    /\ frame_time' - last_window_move_time >= MoveGate

C13_GateSuppresses ==
    [][(/\ direct_control_active'
        /\ label' = "DIRECT_WINDOW_CONTROL"
        /\ last_move_frame >= StartClock
        /\ frame_time' - last_move_frame < MoveGate) =>
          Moves(os_log') = << >>]_vars

\* A displacement over the threshold, half a second after a move: dropped
C13_Witness ==
    /\ direct_control_active
    /\ label = "DIRECT_WINDOW_CONTROL"
    /\ last_move_frame >= StartClock
    /\ frame_time > last_move_frame
    /\ frame_time - last_move_frame < MoveGate
    /\ prev_hand_position # None
    /\ PalmPos(hand)[1] - prev_hand_position[1] > MoveThreshold
    /\ os_log = << >>

\* C14: any two move commands sent, in one frame or in different frames, on
\* one axis or on two, lie at least MoveGate (1.0 s) apart.
C14_MovesOneSecondApart ==
    [][\A k \in DOMAIN SentMoves(os_log') :
          IF k = 1
          THEN last_move_at >= StartClock =>
                   SentMoves(os_log')[k].t - last_move_at >= MoveGate
          ELSE SentMoves(os_log')[k].t - SentMoves(os_log')[k - 1].t >= MoveGate]_vars

\* C15: every frame that tracks the hand while the mode is active leaves
\* last_hand_position at the screen position of that frame, also when the
\* gate drops its commands.
C15_CacheFollowsEveryFrame ==
    [][(/\ direct_control_active /\ direct_control_active'
        /\ label' = "DIRECT_WINDOW_CONTROL"
        /\ pc' = "loop") =>
          last_hand_position' = PalmPos(hand')]_vars

\* The tracking pass of a frame is not cut short by the gate: there is no
\* baseline yet, or at least MoveGate has passed since last_window_move_time
GateOpen ==
    \/ last_hand_position = None
    \/ frame_time' - last_window_move_time >= MoveGate

\* C16 as stated: while the mode is active, every frame with a hand, whatever
\* its label, leaves last_hand_position at the screen position of that frame
\* (taken for the frames the gate does not cut short).
C16_TrackingOnEveryLabel ==
    [][(/\ direct_control_active /\ direct_control_active'
        /\ hand'.present
        /\ label' \in Gestures \cup {"NONE"}
        /\ pc' = "loop"
        /\ GateOpen) =>
          last_hand_position' = PalmPos(hand')]_vars

\* C16, amended: while the mode is active, a frame tracks the hand exactly
\* when its label is DIRECT_WINDOW_CONTROL; a frame with any other label, or
\* with none, reads no position, calls no move command and leaves the cache
\* and the gate as they were.
C16_TrackingOnlyOnDirectLabel ==
    [][/\ (/\ direct_control_active
           /\ hand'.present
           /\ label' \in (Gestures \ {"DIRECT_WINDOW_CONTROL"}) \cup {"NONE"}) =>
             /\ last_hand_position' = last_hand_position
             /\ last_window_move_time' = last_window_move_time
             /\ Moves(os_log') = << >>
             /\ pc' = "loop"
       /\ (/\ direct_control_active /\ direct_control_active'
           /\ label' = "DIRECT_WINDOW_CONTROL"
           /\ pc' = "loop"
           /\ GateOpen) =>
             last_hand_position' = PalmPos(hand')]_vars

\* An OK frame in the active mode with the hand away from the cached position
C16_Witness ==
    /\ direct_control_active
    /\ label = "OK"
    /\ last_hand_position # None
    /\ last_hand_position # PalmPos(hand)
    /\ prev_hand_position = last_hand_position

\* C17: at the end of a processed frame gesture_detected is true only if the
\* frame resolved to a gesture label; after a frame without a hand or with
\* label NONE it is false.
C17_FlagOnlyAfterGesture ==
    label \in Gestures \cup Idle =>
        /\ gesture_detected => label \in Gestures
        /\ label \in Idle => ~gesture_detected

\* A frame with a hand in no pose, later than a dispatched action
C17_Witness ==
    /\ label = "NONE"
    /\ hand.present
    /\ ~gesture_detected
    /\ last_fire >= StartClock
    /\ frame_time > last_fire

\* C18: a rising edge that arrives while the cooldown runs sets
\* gesture_detected and dispatches nothing; while the gesture stays held no
\* frame calls execute_action, before or after the cooldown expires; a frame
\* dispatches an action only if it began with gesture_detected false, that
\* is after a frame with label NONE or without a hand.
C18_HeldGestureNeverRetried ==
    [][/\ (/\ label' \in Gestures
           /\ ~gesture_detected
           /\ frame_time' - last_action_time < action_cooldown) =>
             /\ gesture_detected'
             /\ "detected" \notin Range(printed')
             /\ last_action_time' = last_action_time
             /\ direct_control_active' = direct_control_active
       /\ (label' \in Gestures /\ gesture_detected) =>
             /\ invoked' = << >>
             /\ "detected" \notin Range(printed')
             /\ gesture_detected'
       /\ (label' \in Gestures /\ "detected" \in Range(printed')) =>
             ~gesture_detected]_vars

\* The only call that passed the cooldown test was the one at the start
\* that switched the continuous control on; the OK gesture, made during the
\* cooldown, is still held when the cooldown has expired, and nothing fires.
C18_Witness ==
    /\ label = "OK"
    /\ streak >= 2
    /\ gesture_detected
    /\ dropped_edge
    /\ direct_control_active
    /\ last_action_time = StartClock
    /\ frame_time - last_action_time >= action_cooldown
    /\ invoked = << >>
    /\ os_log = << >>

\* C19: for an absent hand each of the eight classifiers is false and the
\* resolver yields NONE; the frame ends without an error and without a call
\* of execute_action.
C19_AbsentHandIsNone ==
    ~hand.present =>
        /\ \A k \in DOMAIN Order : ~Holds(Order[k], hand)
        /\ Resolve(hand) = "NONE"
        /\ label \in {"START", "NONE"}
        /\ pc = "loop"
        /\ invoked = << >>

C19_Witness ==
    /\ ~hand.present
    /\ label = "NONE"
    /\ ~gesture_detected
    /\ pc = "loop"

\* C20: _get_landmark_points called with an empty or absent keypoint
\* sequence returns (a result that stands for "no pose") and does not end in
\* an error.
C20_AdapterReturnsNoPose ==
    (/\ label = "ADAPTER"
     /\ (IF hand.present THEN DOMAIN hand.landmark = {} ELSE TRUE)) =>
        /\ adapter_result.status \notin {"IndexError", "TypeError"}
        /\ pc = "loop"

\* Offset of the tip from the joint of one digit of hand h (negative: the tip
\* is above the joint); the digits are named by their tip and joint indices.
Off(h, tip, joint) == h.landmark[tip].y - h.landmark[joint].y

Above(h, tip, joint) == Off(h, tip, joint) < 0

Below(h, tip, joint) == Off(h, tip, joint) > 0

Extended(h, tip, joint) == Off(h, tip, joint) < 0 - ExtendMargin

Closed(h, tip, joint) == Off(h, tip, joint) > 0 - CloseMargin

\* Squared distance between thumb tip and index tip
Dist2(h) ==
    (h.landmark[4].x - h.landmark[8].x) * (h.landmark[4].x - h.landmark[8].x)
    + (h.landmark[4].y - h.landmark[8].y) * (h.landmark[4].y - h.landmark[8].y)

\* C21: detect_ok_gesture is true exactly when the thumb tip and the index
\* tip are strictly closer than ok_distance and the middle, ring and pinky
\* tips are strictly above their PIP joints; nothing else plays a part.  OK
\* being first in the chain, the frame is labelled OK exactly then.
C21_OkPredicate ==
    hand.present =>
        /\ detect_ok_gesture(hand) <=>
              /\ Dist2(hand) < ok_distance * ok_distance
              /\ Above(hand, 12, 10) /\ Above(hand, 16, 14) /\ Above(hand, 20, 18)
        /\ label # "START" => (label = "OK" <=> detect_ok_gesture(hand))

\* Thumb and index tip exactly ok_distance apart, the other three extended:
\* not OK
C21_Witness ==
    /\ hand.present
    /\ label \notin {"START", "OK"}
    /\ Dist2(hand) = ok_distance * ok_distance
    /\ Above(hand, 12, 10) /\ Above(hand, 16, 14) /\ Above(hand, 20, 18)

\* C22: detect_thumbs_up is true exactly when thumb tip.y < ip.y < mcp.y and
\* the four fingers have tip.y > pip.y; detect_minimize_window_gesture
\* exactly when thumb tip.y > ip.y > mcp.y and the same four fingers are
\* closed; neither uses a margin.
C22_ThumbPredicates ==
    hand.present =>
        /\ detect_thumbs_up(hand) <=>
              /\ Above(hand, 4, 3) /\ Above(hand, 3, 2)
              /\ Below(hand, 8, 6) /\ Below(hand, 12, 10)
              /\ Below(hand, 16, 14) /\ Below(hand, 20, 18)
        /\ detect_minimize_window_gesture(hand) <=>
              /\ Below(hand, 4, 3) /\ Below(hand, 3, 2)
              /\ Below(hand, 8, 6) /\ Below(hand, 12, 10)
              /\ Below(hand, 16, 14) /\ Below(hand, 20, 18)

\* A thumb tip above its joint by less than either margin: thumbs up
C22_Witness ==
    /\ hand.present
    /\ label = "THUMBS_UP"
    /\ Above(hand, 4, 3)
    /\ ~Extended(hand, 4, 3)
    /\ Closed(hand, 4, 3)

\* C23: each of the five classifiers with margins is true exactly when its
\* digits are extended (tip.y < joint.y - 0.02) and closed
\* (tip.y > joint.y - 0.01) as listed: COPY index, middle / thumb, ring,
\* pinky; PASTE thumb, index / middle, ring, pinky; MOVE_WINDOW index,
\* middle, ring / thumb, pinky; RESIZE_WINDOW thumb, index, middle / ring,
\* pinky; DIRECT_WINDOW_CONTROL all five extended.
C23_MarginedPredicates ==
    hand.present =>
        /\ detect_copy_gesture(hand) <=>
              /\ Extended(hand, 8, 6) /\ Extended(hand, 12, 10)
              /\ Closed(hand, 4, 3) /\ Closed(hand, 16, 14) /\ Closed(hand, 20, 18)
        /\ detect_paste_gesture(hand) <=>
              /\ Extended(hand, 4, 3) /\ Extended(hand, 8, 6)
              /\ Closed(hand, 12, 10) /\ Closed(hand, 16, 14) /\ Closed(hand, 20, 18)
        /\ detect_move_window_gesture(hand) <=>
              /\ Extended(hand, 8, 6) /\ Extended(hand, 12, 10) /\ Extended(hand, 16, 14)
              /\ Closed(hand, 4, 3) /\ Closed(hand, 20, 18)
        /\ detect_resize_window_gesture(hand) <=>
              /\ Extended(hand, 4, 3) /\ Extended(hand, 8, 6) /\ Extended(hand, 12, 10)
              /\ Closed(hand, 16, 14) /\ Closed(hand, 20, 18)
        /\ detect_direct_window_control_gesture(hand) <=>
              /\ Extended(hand, 4, 3) /\ Extended(hand, 8, 6) /\ Extended(hand, 12, 10)
              /\ Extended(hand, 16, 14) /\ Extended(hand, 20, 18)

\* MOVE_WINDOW with thumb and pinky above their joints, inside the closure
\* margin
C23_Witness ==
    /\ hand.present
    /\ label = "MOVE_WINDOW"
    /\ Above(hand, 4, 3) /\ Closed(hand, 4, 3)
    /\ Above(hand, 20, 18) /\ Closed(hand, 20, 18)

\* C24 as stated: some pose, of the grid or the one of this frame, with all
\* five digits extended satisfies, besides DIRECT_WINDOW_CONTROL, one of
\* COPY, PASTE, MOVE_WINDOW, RESIZE_WINDOW.
C24_OpenHandOverlaps ==
    \E h \in PoseGrid \cup {hand} :
        /\ detect_direct_window_control_gesture(h)
        /\ \/ detect_copy_gesture(h) \/ detect_paste_gesture(h)
           \/ detect_move_window_gesture(h) \/ detect_resize_window_gesture(h)

\* C24, amended: a pose with all five digits extended satisfies none of
\* COPY, PASTE, MOVE_WINDOW, RESIZE_WINDOW (each wants a digit closed, and
\* no offset is both below -0.02 and above -0.01); besides
\* DIRECT_WINDOW_CONTROL it can satisfy OK only, and the frame is labelled
\* OK or DIRECT_WINDOW_CONTROL.
C24_OpenHandMatchesOnlyOk ==
    (hand.present /\ detect_direct_window_control_gesture(hand)) =>
        /\ ~detect_copy_gesture(hand) /\ ~detect_paste_gesture(hand)
        /\ ~detect_move_window_gesture(hand) /\ ~detect_resize_window_gesture(hand)
        /\ ~detect_thumbs_up(hand) /\ ~detect_minimize_window_gesture(hand)
        /\ label \in {"START", "OK", "DIRECT_WINDOW_CONTROL"}

C24_Witness ==
    /\ hand.present
    /\ detect_direct_window_control_gesture(hand)
    /\ ~detect_ok_gesture(hand)
    /\ label = "DIRECT_WINDOW_CONTROL"
    /\ Matching(hand) = {8}

\* C25: every way the frame loop ends -- the quit key, the closed window, a
\* failed read, the interrupt signal, an exception raised while a frame is
\* processed -- calls _cleanup, so that _cleanup has run exactly once when
\* the loop has ended and not at all before; no step follows the end of the
\* loop.
C25_CleanupExactlyOnce ==
    [][/\ pc # "done"
       /\ pc' = "done" => cleanups' = 1 /\ pc = "loop"
       /\ pc' # "done" => cleanups' = 0]_vars

\* The loop has ended by an exception of a frame, and _cleanup has run
C25_Witness ==
    /\ pc = "done"
    /\ label \in Gestures
    /\ cleanups = 1

\* C26: an OS call that raises inside execute_action (the application launch
\* or a key event) is caught inside execute_action: the method returns
\* normally for every label and every failing call, and a frame in which it
\* printed the error leaves the loop running with no cleanup -- unless the
\* tracking pass of that same frame raises on its own -- so that the next
\* frames are processed.
C26_ActionFailureCaught ==
    [][/\ \A g \in Gestures \cup CallLabels, d \in Elapsed :
              \A e \in 0..OsCalls(g) :
                  ~execute_action([Self EXCEPT !.now = now + d], g, e).raised
       /\ "error" \in Range(printed') /\ pc' # "loop"
              => label' = "DIRECT_WINDOW_CONTROL" /\ direct_control_active'
       /\ "error" \in Range(printed') /\ pc' = "loop"
              => cleanups' = 0 /\ failed_at' = frame_time']_vars

\* A gesture frame has been processed after a frame in which execute_action
\* caught an error, and the loop is still running
C26_Witness ==
    /\ failed_at >= StartClock
    /\ frame_time > failed_at
    /\ label \in Gestures
    /\ pc = "loop"
    /\ cleanups = 0

\* C27: when the camera cannot be opened at startup the session aborts
\* before the loop starts: once construction has been attempted with a camera
\* that is not open, the program is at its end without ever having entered
\* the loop -- no frame has been processed, execute_action has not been
\* called, no OS call has been made, _cleanup has not run -- and no step
\* follows.
C27_NoCameraNoSession ==
    [][/\ pc # "aborted"
       /\ pc' # "main" /\ ~cap_opened'
              => /\ pc' = "aborted"
                 /\ pc = "main"
                 /\ label' = "START"
                 /\ invoked' = << >>
                 /\ os_log' = << >>
                 /\ last_fire' = 0
                 /\ cleanups' = 0]_vars

\* Construction has failed on the camera and main() has printed the error
C27_Witness ==
    /\ pc = "aborted"
    /\ ~cap_opened
    /\ printed = <<"init_error">>
    /\ label = "START"

\* C28: with the fallback defaults in use (config.py could not be imported),
\* a frame that resolves to any of the eight gestures raises no error and
\* leaves the loop running.
C28_FallbackKeepsRunning ==
    ~config_loaded /\ label \in Gestures
        => pc = "loop" /\ "KeyError" \notin Range(printed) /\ cleanups = 0

\* C29: construction leaves gesture_detected false, action_cooldown at
\* 2.0 s (four half seconds), the continuous control inactive, no cached
\* hand position, last_action_time and last_window_move_time at 0; and the
\* first call of execute_action of a session, at any clock reading of at
\* least action_cooldown, passes the cooldown test.
C29_FreshStateFiresFirstEdge ==
    [][/\ pc = "main" /\ pc' = "loop"
              => /\ gesture_detected' = FALSE
                 /\ action_cooldown = 4
                 /\ direct_control_active' = FALSE
                 /\ last_hand_position' = None
                 /\ last_action_time' = 0
                 /\ last_window_move_time' = 0
                 /\ \A t \in action_cooldown..now' :
                        ~CooldownActive(t, last_action_time')
       /\ pc = "loop" /\ last_fire = 0 /\ now' >= action_cooldown
          /\ ~gesture_detected /\ invoked' # << >>
              => /\ last_action_time' = frame_time'
                 /\ last_fire' = frame_time'
                 /\ gesture_detected']_vars

\* The first gesture of a session has dispatched its action
C29_Witness ==
    /\ pc = "loop"
    /\ label = "OK"
    /\ prev_action_time = 0
    /\ last_fire = frame_time
    /\ gesture_detected
    /\ "detected" \in Range(printed)

\* The label a resolver that tests the classifiers in the reverse order
\* would give
LastMatch(h) ==
    IF Matching(h) = {} THEN "NONE"
    ELSE Order[CHOOSE k \in Matching(h) : \A j \in Matching(h) : k >= j]

\* The places in Order of the five margined gestures
Margined == {3, 4, 5, 6, 8}

\* C30: for every pose at most one of the seven classifiers other than OK
\* holds, and OK holds together with neither THUMBS_UP nor MINIMIZE_WINDOW;
\* so two classifiers hold together only when one is OK and the other a
\* margined gesture, and only then does the order of the tests decide the
\* label.
C30_OnlyOkOverlaps ==
    /\ Cardinality(Matching(hand) \ {1}) <= 1
    /\ 1 \in Matching(hand) => Matching(hand) \cap {2, 7} = {}
    /\ Cardinality(Matching(hand)) >= 2
           => 1 \in Matching(hand) /\ Matching(hand) \ {1} \subseteq Margined
    /\ label \in Gestures /\ label # LastMatch(hand)
           => /\ label = "OK"
              /\ \E k \in Margined : k \in Matching(hand) /\ LastMatch(hand) = Order[k]

\* A pose that is both OK and MOVE_WINDOW has been resolved to OK
C30_Witness ==
    /\ label = "OK"
    /\ detect_ok_gesture(hand)
    /\ detect_move_window_gesture(hand)
    /\ Matching(hand) = {1, 5}
    /\ invoked = <<"OK">>

\* The digits, each as its tip and the joint the margined classifiers
\* compare it with
Digits == {<<4, 3>>, <<8, 6>>, <<12, 10>>, <<16, 14>>, <<20, 18>>}

\* The tip of digit d of hand h lies in the band
\* joint.y - 0.02 <= tip.y <= joint.y - 0.01
InBand(h, d) ==
    /\ Off(h, d[1], d[2]) >= 0 - ExtendMargin
    /\ Off(h, d[1], d[2]) <= 0 - CloseMargin

\* C31: with the margins, no digit is both extended and closed, a digit
\* whose tip lies in the band joint.y - 0.02 <= tip.y <= joint.y - 0.01 is
\* neither, and a pose with a digit in that band satisfies none of COPY,
\* PASTE, MOVE_WINDOW, RESIZE_WINDOW, DIRECT_WINDOW_CONTROL, so its frame
\* gets none of these labels.
C31_BandDigitMatchesNothing ==
    hand.present =>
        /\ \A d \in Digits :
              /\ ~(Extended(hand, d[1], d[2]) /\ Closed(hand, d[1], d[2]))
              /\ InBand(hand, d)
                    => ~Extended(hand, d[1], d[2]) /\ ~Closed(hand, d[1], d[2])
        /\ (\E d \in Digits : InBand(hand, d)) =>
              /\ ~detect_copy_gesture(hand)
              /\ ~detect_paste_gesture(hand)
              /\ ~detect_move_window_gesture(hand)
              /\ ~detect_resize_window_gesture(hand)
              /\ ~detect_direct_window_control_gesture(hand)
              /\ label \in {"START", "OK", "THUMBS_UP", "MINIMIZE_WINDOW", "NONE"}

\* A pose that would be RESIZE_WINDOW but for its thumb tip, which is
\* exactly 0.02 above the joint, has been given no label
C31_Witness ==
    /\ hand.present
    /\ Off(hand, 4, 3) = 0 - ExtendMargin
    /\ Extended(hand, 8, 6) /\ Extended(hand, 12, 10)
    /\ Closed(hand, 16, 14) /\ Closed(hand, 20, 18)
    /\ label = "NONE"

\* C32: a frame in which a window-move command is called ends with the
\* continuous control active and has the label DIRECT_WINDOW_CONTROL; the
\* frame that switches the mode off calls none, reads no hand position and
\* leaves the gate as it was.
C32_NoMoveWhenInactive ==
    [][/\ Moves(os_log') # << >>
             => /\ direct_control_active'
                /\ label' = "DIRECT_WINDOW_CONTROL"
                /\ "direct_off" \notin Range(printed')
       /\ ~direct_control_active' => Moves(os_log') = << >>
       /\ direct_control_active /\ ~direct_control_active'
             => /\ Moves(os_log') = << >>
                /\ last_hand_position' = last_hand_position
                /\ last_window_move_time' = last_window_move_time]_vars

\* The mode has been switched off by a frame whose hand was farther than
\* the threshold from the cached position, with the gate open
C32_Witness ==
    /\ label = "DIRECT_WINDOW_CONTROL"
    /\ ~direct_control_active
    /\ "direct_off" \in Range(printed)
    /\ last_hand_position # None
    /\ Abs(PalmPos(hand)[1] - last_hand_position[1]) > MoveThreshold
    /\ frame_time - last_window_move_time >= MoveGate
    /\ os_log = << >>

\* C33: the action cooldown and the gate of the move commands are separate
\* timers.  The tracking pass, whatever it sends, gives back last_action_time,
\* gesture_detected and direct_control_active as it got them, and sends the
\* same commands when the action cooldown has just begun; execute_action
\* gives back last_window_move_time as it got it, for every label and every
\* failing call.  So a frame of a held gesture that calls a move command
\* leaves last_action_time and the flag as they were, and
\* last_window_move_time is the time of the last frame that sent a move
\* command.
C33_TimersIndependent ==
    /\ \A h \in ReactHands, d \in Elapsed, m \in 0..2 :
           LET s == [Self EXCEPT !.now = now + d]
               r == _process_direct_window_control(s, h, FALSE, m)
               c == _process_direct_window_control(
                        [s EXCEPT !.last_action_time = s.now], h, FALSE, m)
           IN  /\ r.last_action_time = s.last_action_time
               /\ r.gesture_detected = s.gesture_detected
               /\ r.direct_control_active = s.direct_control_active
               /\ c.os_log = r.os_log
               /\ c.last_window_move_time = r.last_window_move_time
               /\ c.last_hand_position = r.last_hand_position
    /\ \A g \in Gestures \cup CallLabels, d \in Elapsed :
           \A e \in 0..OsCalls(g) :
               LET s == [Self EXCEPT !.now = now + d]
               IN  execute_action(s, g, e).last_window_move_time
                       = s.last_window_move_time
    /\ Moves(os_log) # << >> /\ invoked = << >>
           => /\ last_action_time = prev_action_time
              /\ gesture_detected
              /\ direct_control_active
    /\ last_window_move_time = last_move_frame

\* A move command has been sent while the action cooldown was running
C33_Witness ==
    /\ SentMoves(os_log) # << >>
    /\ invoked = << >>
    /\ last_action_time >= StartClock
    /\ frame_time - last_action_time < action_cooldown
    /\ last_window_move_time = frame_time
    /\ direct_control_active

\* C34: with a frame_skip above 1, an iteration whose counter is not a
\* multiple of frame_skip dispatches nothing and changes no field of the
\* dispatcher -- gesture_detected stays as it was even when the skipped
\* frame shows no hand -- so when two processed frames in a row have the
\* same gesture label, whatever the skipped frames between them showed, the
\* second does not call execute_action.
C34_SkippedFramesInvisible ==
    [][/\ frame_count' # frame_count /\ frame_count' % frame_skip # 0
             => /\ frame_skip > 1
                /\ UNCHANGED <<pc, last_action_time, gesture_detected,
                               direct_control_active, last_hand_position,
                               window_initial_position, move_mode_activated,
                               last_window_move_time, last_fire, invoked,
                               os_log, printed, label, cleanups>>
       /\ (/\ frame_count' # frame_count /\ frame_count' % frame_skip = 0
           /\ label \in Gestures /\ label' = label)
             => /\ invoked' = << >>
                /\ os_log' = << >>
                /\ last_fire' = last_fire
                /\ last_action_time' = last_action_time]_vars

\* Two processed OK frames with a skipped frame without a hand between them,
\* the second one after the cooldown of the first, which fired
C34_Witness ==
    /\ frame_skip > 1
    /\ label = "OK"
    /\ streak = 2
    /\ bridged_absent
    /\ gesture_detected
    /\ invoked = << >>
    /\ last_fire >= StartClock
    /\ frame_time - last_fire >= action_cooldown

====
